---- MODULE Spec2Model ----
(***************************************************************************)
(* lcda-calendar: the event service (recurrence expansion and the overlap  *)
(* guard of create/update) and the HTTP handlers in front of it.           *)
(*                                                                         *)
(* Time.  An instant is an integer number of ticks of 30 minutes since the *)
(* epoch Sunday 2023-12-31T00:00Z, so tick 48 is Monday 2024-01-01 00:00   *)
(* and tick 66 is that Monday 09:00.  Days and weeks have their real       *)
(* length in ticks; a month is MonthLen days (the model's calendar is      *)
(* shortened only there, so that the six month horizon of the overlap      *)
(* guard spans a few weeks instead of twenty-six).                         *)
(***************************************************************************)
EXTENDS Integers, Sequences, FiniteSets

VARIABLES
    events,     \* the Event table (prisma.event): a set of rows
    nextId,     \* the next row id prisma.event.create hands out
    last,       \* the HTTP exchange completed last: request, guard window, response
    rq,         \* requests in flight when handlers interleave at their awaits
    probe,      \* arguments of a direct call of expandEvents
    result,     \* what that call, or the query of a read request, returned
    form,       \* the event composer's form: its weekdays field
    streams,    \* the connections of GET /api/events/stream, by connection
    client      \* the calendar page's stream subscription (its effect)

vars == <<events, nextId, last, rq, probe, result, form, streams, client>>

----------------------------------------------------------------------------
(* Bounds of the model *)

MaxEvents == 2      \* rows ever created
MaxSlot == 1        \* start instants: BaseStart .. BaseStart + MaxSlot
MonthLen == 3       \* days in a month of the model's calendar
MaxConns == 2       \* EventSource objects the page ever creates
MaxChunks == 3      \* chunks enqueued on one stream

(* Program constants *)

MIN_DURATION == 1           \* 30 * 60 * 1000 ms = one tick
HORIZON_MONTHS == 6         \* addMonths(start, 6)
DayLen == 24 * 2            \* ticks in a day
WeekLen == 7 * DayLen

Absent == 0 - 1             \* an optional number or instant that is undefined
NaN == 0 - 2                \* new Date(text).getTime() of text that is no date
NoId == 0                   \* excludeId undefined

Max(a, b) == IF a >= b THEN a ELSE b

----------------------------------------------------------------------------
(* Date arithmetic *)

dayOf(t) == t \div DayLen
timeOfDay(t) == t % DayLen

\* Date.getUTCDay(): 0 = Sunday .. 6 = Saturday (the epoch is a Sunday)
getUTCDay(t) == dayOf(t) % 7

\* date-fns addMonths, on the model's calendar of MonthLen-day months
addMonths(t, n) == t + n * MonthLen * DayLen

\* date-fns differenceInMilliseconds(later, earlier)
differenceInMilliseconds(a, b) == a - b

\* (mutant) an interval test that leaves out the two end instants
isWithinIntervalOpen(date, start, end) == date > start /\ date < end

\* date-fns isWithinInterval(date, {start, end}).  For an interval whose end
\* is before its start, date-fns 3 and later take the two bounds in order,
\* and date-fns 2 throws a RangeError (isWithinIntervalThrows).
isWithinInterval(date, start, end) ==
    IF start <= end THEN date >= start /\ date <= end
    ELSE date >= end /\ date <= start

isWithinIntervalThrows(start, end) == end < start

----------------------------------------------------------------------------
(* Recurrence rules *)

\* A RecurrenceRuleInput, or null.  count, until and interval are Absent when
\* the field is undefined.
NULL == [kind |-> "null", weekdays |-> {}, interval |-> Absent,
         count |-> Absent, until |-> Absent]

Rule(wd, iv, cnt, unt) ==
    [kind |-> "rule", weekdays |-> wd, interval |-> iv, count |-> cnt, until |-> unt]

\* (mutant) a map that hands the index to rrule as it is
WEEKDAY_MAP_Unshifted == [d \in 0..6 |-> d]

\* RRule.SU .. RRule.SA: rrule numbers weekdays from Monday = 0 to Sunday = 6
WEEKDAY_MAP == [d \in 0..6 |-> (d + 6) % 7]

\* rrule's weekday (Monday = 0) of day number d, and of the day holding instant t
weekdayOfDay(d) == ((d % 7) + 6) % 7
rruleWeekday(t) == weekdayOfDay(dayOf(t))

\* the day number of the Monday that starts the week (wkst = MO) of day d
weekStart(d) == d - weekdayOfDay(d)

\* (mutant) a rule that takes until alone when both bounds are given
buildRRuleUntilOnly(start, rule) ==
    [dtstart |-> start,
     interval |-> IF rule.interval = Absent THEN 1 ELSE rule.interval,
     byweekday |-> {WEEKDAY_MAP[d] : d \in rule.weekdays},
     count |-> IF rule.until # Absent THEN Absent ELSE rule.count,
     until |-> rule.until]

\* new RRule({freq: WEEKLY, interval, byweekday, dtstart, count, until})
\* interval ?? 1; an empty byweekday defaults to the weekday of dtstart.
buildRRule(start, rule) ==
    [dtstart |-> start,
     interval |-> IF rule.interval = Absent THEN 1 ELSE rule.interval,
     byweekday |-> IF rule.weekdays = {}
                     THEN {rruleWeekday(start)}
                     ELSE {WEEKDAY_MAP[d] : d \in rule.weekdays},
     count |-> rule.count,
     until |-> rule.until]

\* (mutant) the sequence generated as if the rule had no until
rruleInstantsNoUntil(r, before) ==
    LET w0 == weekStart(dayOf(r.dtstart))
        weeks == {w \in 0 .. (dayOf(before) - w0) \div 7 : w % r.interval = 0}
        all == {(w0 + 7 * w + wd) * DayLen + timeOfDay(r.dtstart) :
                    w \in weeks, wd \in r.byweekday}
    IN  {t \in all : t >= r.dtstart /\ t <= before}

\* The instants of the rule's sequence that are <= before.  rrule walks the
\* weeks (starting on Monday) from dtstart's week on, interval weeks at a
\* time, and yields in each the days whose weekday is in byweekday, at
\* dtstart's time of day, from dtstart on and not after until.
rruleInstants(r, before) ==
    LET w0 == weekStart(dayOf(r.dtstart))
        weeks == {w \in 0 .. (dayOf(before) - w0) \div 7 : w % r.interval = 0}
        all == {(w0 + 7 * w + wd) * DayLen + timeOfDay(r.dtstart) :
                    w \in weeks, wd \in r.byweekday}
    IN  {t \in all : /\ t >= r.dtstart
                     /\ t <= before
                     /\ (r.until = Absent \/ t <= r.until)}

\* (mutant) the sequence generated as if the rule had no count
rruleUncounted(r, before) == rruleInstants(r, before)

\* The sequence cut at count: an instant is kept when it is among the first
\* count instants of the sequence.
rruleCounted(r, before) ==
    LET all == rruleInstants(r, before)
    IN  {t \in all : r.count = Absent \/ Cardinality({u \in all : u <= t}) <= r.count}

RECURSIVE Ascending(_)
Ascending(S) ==
    IF S = {} THEN <<>>
    ELSE LET m == CHOOSE x \in S : \A y \in S : x <= y
         IN  <<m>> \o Ascending(S \ {m})

\* (mutant) a rule whose count is counted from the window's start on
betweenCountedInWindow(r, after, before) ==
    LET inWindow == {t \in rruleInstants(r, before) : t >= after}
    IN  Ascending({t \in inWindow :
                     r.count = Absent \/ Cardinality({u \in inWindow : u <= t}) <= r.count})

\* (mutant) rule.between(after, before) with inc = false
betweenExclusive(r, after, before) ==
    Ascending({t \in rruleCounted(r, before) : t > after /\ t < before})

\* rule.between(after, before, inc = true): ascending
between(r, after, before) ==
    Ascending({t \in rruleCounted(r, before) : t >= after})

----------------------------------------------------------------------------
(* The service: expansion *)

\* An Event row.  recurrenceRule is the TEXT column: NULL, or the JSON text of
\* a rule (kind "rule"), which JSON.parse gives back field by field, or one of
\* the texts below that no request handler writes.
\* category is the category column, participants the member ids of the row's
\* EventParticipant rows.
DefaultCategory == "rehearsal"
Undefined == "undefined"    \* a payload field the caller leaves out

Row(id, start, end, rule) ==
    [id |-> id, start |-> start, end |-> end, recurrenceRule |-> rule,
     category |-> DefaultCategory, participants |-> {}]

\* JSON.stringify(payload.recurrence) when the payload has a rule, else null
stringifyRecurrence(recurrence) ==
    IF recurrence.kind = "null" THEN NULL ELSE recurrence

\* Column texts that are not the JSON of a rule: text JSON.parse rejects; the
\* JSON of null or of a number; an object without weekdays; an object whose
\* weekdays is a truthy value that is not an array (a number, a string)
Unparseable == [NULL EXCEPT !.kind = "unparseable"]
NotAnObject == [NULL EXCEPT !.kind = "notObject"]
MissingWeekdays == [NULL EXCEPT !.kind = "noWeekdays"]
WeekdaysNotArray == [NULL EXCEPT !.kind = "weekdaysNotArray"]

\* parseRecurrence(value): null for a null column, for text that JSON.parse
\* or the read of data.weekdays throws on (caught), and for data whose
\* weekdays is missing or empty; else the parsed data as it is
parseRecurrence(value) ==
    IF value.kind \in {"null", "unparseable", "notObject", "noWeekdays"} THEN NULL
    ELSE IF value.kind = "weekdaysNotArray" THEN value
    ELSE IF value.weekdays = {} THEN NULL
    ELSE value

\* buildRRule(start, rule) throws a TypeError: rule.weekdays.map is not a
\* function when weekdays is not an array, and the RRule constructor reads a
\* property of undefined when WEEKDAY_MAP has no entry for a weekday
buildRRuleThrows(rule) ==
    \/ rule.kind = "weekdaysNotArray"
    \/ \E d \in rule.weekdays : d \notin DOMAIN WEEKDAY_MAP

\* formatWeekday(day): names[day], the names running from Sunday to Saturday.
\* A weekday name is written as the day it names, 0 = Sunday .. 6 = Saturday.
formatWeekday(day) == <<0, 1, 2, 3, 4, 5, 6>>[day + 1]

\* buildRecurrenceSummary(rule): the weekdays the summary names
buildRecurrenceSummary(rule) == {formatWeekday(day) : day \in rule.weekdays}

\* (mutant) an occurrence whose id is the event id on both branches
toResponseSourceId(event, start, end, recurring, summary) ==
    [id |-> <<event.id>>,
     sourceEventId |-> event.id,
     start |-> start,
     end |-> end,
     isRecurring |-> recurring,
     recurrenceSummary |-> summary]

\* toResponse(event, start, end, recurring, summary, ...): the occurrence id
\* is the event id, joined with the start instant for a recurring occurrence
toResponse(event, start, end, recurring, summary) ==
    [id |-> IF recurring THEN <<event.id, start>> ELSE <<event.id>>,
     sourceEventId |-> event.id,
     start |-> start,
     end |-> end,
     isRecurring |-> recurring,
     recurrenceSummary |-> summary]

\* (mutant) a list left in the order the occurrences were pushed
sortByStartKeepsOrder(s) == s

\* Array.prototype.sort by start: stable
RECURSIVE sortByStart(_)
sortByStart(s) ==
    IF s = <<>> THEN <<>>
    ELSE LET n == Len(s)
             front == sortByStart(SubSeq(s, 1, n - 1))
             k == Cardinality({i \in 1..Len(front) : front[i].start <= s[n].start})
         IN  SubSeq(front, 1, k) \o <<s[n]>> \o SubSeq(front, k + 1, Len(front))

\* (mutant) an expansion that flags occurrences as recurring only when the
\* rule gave two or more in the window
expandOneSingleAsOneOff(event, rangeStart, rangeEnd) ==
    LET baseDuration == Max(differenceInMilliseconds(event.end, event.start),
                            MIN_DURATION)
        recurrence == parseRecurrence(event.recurrenceRule)
    IN  IF recurrence.kind = "null"
        THEN IF \/ isWithinInterval(event.start, rangeStart, rangeEnd)
                \/ isWithinInterval(event.end, rangeStart, rangeEnd)
                \/ (event.start <= rangeStart /\ event.end >= rangeEnd)
             THEN <<toResponse(event, event.start, event.end, FALSE, {})>>
             ELSE <<>>
        ELSE LET occurrences == between(buildRRule(event.start, recurrence),
                                        rangeStart, rangeEnd)
                 summary == buildRecurrenceSummary(recurrence)
             IN  [i \in 1..Len(occurrences) |->
                    toResponse(event, occurrences[i],
                               occurrences[i] + baseDuration,
                               Len(occurrences) > 1, summary)]

\* (mutant) an expansion whose test for an event without a rule leaves out
\* the event that contains the window
expandOneNoContainment(event, rangeStart, rangeEnd) ==
    LET baseDuration == Max(differenceInMilliseconds(event.end, event.start),
                            MIN_DURATION)
        recurrence == parseRecurrence(event.recurrenceRule)
    IN  IF recurrence.kind = "null"
        THEN IF \/ isWithinInterval(event.start, rangeStart, rangeEnd)
                \/ isWithinInterval(event.end, rangeStart, rangeEnd)
             THEN <<toResponse(event, event.start, event.end, FALSE, {})>>
             ELSE <<>>
        ELSE LET occurrences == between(buildRRule(event.start, recurrence),
                                        rangeStart, rangeEnd)
                 summary == buildRecurrenceSummary(recurrence)
             IN  [i \in 1..Len(occurrences) |->
                    toResponse(event, occurrences[i],
                               occurrences[i] + baseDuration, TRUE, summary)]

\* the occurrences one event contributes, in the order they are pushed
expandOne(event, rangeStart, rangeEnd) ==
    LET baseDuration == Max(differenceInMilliseconds(event.end, event.start),
                            MIN_DURATION)
        recurrence == parseRecurrence(event.recurrenceRule)
    IN  IF recurrence.kind = "null"
        THEN IF \/ isWithinInterval(event.start, rangeStart, rangeEnd)
                \/ isWithinInterval(event.end, rangeStart, rangeEnd)
                \/ (event.start <= rangeStart /\ event.end >= rangeEnd)
             THEN <<toResponse(event, event.start, event.end, FALSE, {})>>
             ELSE <<>>
        ELSE LET occurrences == between(buildRRule(event.start, recurrence),
                                        rangeStart, rangeEnd)
                 summary == buildRecurrenceSummary(recurrence)
             IN  [i \in 1..Len(occurrences) |->
                    toResponse(event, occurrences[i],
                               occurrences[i] + baseDuration, TRUE, summary)]

RECURSIVE expandAll(_, _, _)
expandAll(evs, rangeStart, rangeEnd) ==
    IF evs = <<>> THEN <<>>
    ELSE expandOne(Head(evs), rangeStart, rangeEnd)
            \o expandAll(Tail(evs), rangeStart, rangeEnd)

\* expandEvents(events, rangeStart, rangeEnd)
expandEvents(evs, rangeStart, rangeEnd) ==
    sortByStart(expandAll(evs, rangeStart, rangeEnd))

\* expandEvents(events, ...) ends with an exception: buildRRule is called
\* outside any try, for each event parseRecurrence gives a rule for
expandEventsThrows(evs) ==
    \E i \in 1..Len(evs) :
        LET recurrence == parseRecurrence(evs[i].recurrenceRule)
        IN  recurrence.kind # "null" /\ buildRRuleThrows(recurrence)

\* prisma.event.findMany({where, orderBy: {start: "asc"}}): rows with equal
\* start come in id (insertion) order
RECURSIVE orderByStart(_)
orderByStart(rows) ==
    IF rows = {} THEN <<>>
    ELSE LET m == CHOOSE x \in rows : \A y \in rows :
                     x.start < y.start \/ (x.start = y.start /\ x.id <= y.id)
         IN  <<m>> \o orderByStart(rows \ {m})

\* the where clause of getEventsInRange
inRangeWhere(e, start, end) ==
    /\ e.start <= end
    /\ (e.end >= start \/ e.recurrenceRule.kind # "null")

\* EventFilters: categories and participantIds, each empty when not given
NoFilters == [categories |-> {}, participantIds |-> {}]

\* the conditions getEventsInRange pushes on the where clause for the filters
filtersWhere(e, filters) ==
    /\ (filters.categories # {} => e.category \in filters.categories)
    /\ (filters.participantIds # {} =>
            e.participants \cap filters.participantIds # {})

\* getEventsInRange(start, end, filters) on table rows, without search text
getEventsInRangeWith(rows, start, end, filters) ==
    expandEvents(orderByStart({e \in rows : /\ inRangeWhere(e, start, end)
                                            /\ filtersWhere(e, filters)}),
                 start, end)

\* (mutant) a query that looks at the events of the default category only
getEventsInRangeDefaultCategory(rows, start, end) ==
    getEventsInRangeWith(rows, start, end,
                         [NoFilters EXCEPT !.categories = {DefaultCategory}])

\* getEventsInRange(start, end) on table rows, without filters
getEventsInRange(rows, start, end) ==
    getEventsInRangeWith(rows, start, end, NoFilters)

----------------------------------------------------------------------------
(* The service: the overlap guard *)

\* (mutant) candidates cut down to the first occurrence of the rule
generateCandidateFirstOnly(start, end, recurrence, rangeStart, rangeEnd) ==
    LET baseDuration == Max(differenceInMilliseconds(end, start), MIN_DURATION)
    IN  IF recurrence.kind = "null"
        THEN <<[start |-> start, end |-> end]>>
        ELSE LET occurrences == between(buildRRule(start, recurrence),
                                        rangeStart, rangeEnd)
             IN  [i \in 1..(IF occurrences = <<>> THEN 0 ELSE 1) |->
                    [start |-> occurrences[i], end |-> occurrences[i] + baseDuration]]

\* generateCandidateOccurrences(start, end, recurrence, rangeStart, rangeEnd)
generateCandidateOccurrences(start, end, recurrence, rangeStart, rangeEnd) ==
    LET baseDuration == Max(differenceInMilliseconds(end, start), MIN_DURATION)
    IN  IF recurrence.kind = "null"
        THEN <<[start |-> start, end |-> end]>>
        ELSE LET occurrences == between(buildRRule(start, recurrence),
                                        rangeStart, rangeEnd)
             IN  [i \in 1..Len(occurrences) |->
                    [start |-> occurrences[i], end |-> occurrences[i] + baseDuration]]

\* (mutant) a window that always reaches six months past the start
conflictRangeEndAlwaysSixMonths(start, end, recurrence) ==
    Max(Max(recurrence.until, addMonths(start, HORIZON_MONTHS)), end)

\* the end of the window assertNoConflict scans
conflictRangeEnd(start, end, recurrence) ==
    LET rangeEnd == IF recurrence.until # Absent
                    THEN recurrence.until
                    ELSE addMonths(start, HORIZON_MONTHS)
    IN  IF rangeEnd < end THEN end ELSE rangeEnd

\* the test assertNoConflict applies to a candidate and a stored occurrence
overlaps(occurrence, conflict) ==
    occurrence.start <= conflict.end /\ occurrence.end >= conflict.start

\* assertNoConflict(start, end, recurrence, excludeId): TRUE when it throws
\* EventConflictError
assertNoConflict(rows, start, end, recurrence, excludeId) ==
    LET rangeStart == start
        rangeEnd == conflictRangeEnd(start, end, recurrence)
        candidateOccurrences ==
            generateCandidateOccurrences(start, end, recurrence, rangeStart, rangeEnd)
        conflicts == getEventsInRange(rows, rangeStart, rangeEnd)
    IN  \E c \in 1..Len(conflicts) :
            /\ ~(excludeId # NoId /\ conflicts[c].sourceEventId = excludeId)
            /\ \E o \in 1..Len(candidateOccurrences) :
                    overlaps(candidateOccurrences[o], conflicts[c])

----------------------------------------------------------------------------
(* Requests *)

BaseStart == DayLen + 18        \* Monday 2024-01-01 09:00
UntilWeek == BaseStart + WeekLen    \* Monday 2024-01-08 09:00
UntilEarly == BaseStart + 1         \* Monday 2024-01-01 09:30

MondayWeekly == Rule({1}, Absent, Absent, Absent)
MonWedUntil == Rule({1, 3}, 1, Absent, UntilWeek)
MondayTwice == Rule({1}, 1, 2, UntilEarly)

\* bodies the handlers' schemas accept: ISO instants and a rule with weekdays
\* in 0..6, not empty, or none
Body(start, end, recurrence) ==
    [start |-> start, end |-> end, recurrence |-> recurrence,
     category |-> DefaultCategory, participantIds |-> {}]

Durations == {1, 2}

\* a body whose end is before its start: two ISO instants, which is all the
\* schemas ask of start and end
InvertedBody == Body(BaseStart + 1, BaseStart, NULL)

Payloads ==
    {Body(BaseStart + k, BaseStart + k + d, r) :
        k \in 0..MaxSlot, d \in Durations, r \in {NULL, MondayWeekly}}
        \cup {InvertedBody}

Ids == 1..MaxEvents

NoExchange ==
    [op |-> "none", id |-> NoId, start |-> 0, end |-> 0, recurrence |-> NULL,
     category |-> DefaultCategory, participantIds |-> {},
     rangeStart |-> 0, rangeEnd |-> 0, error |-> "none", status |-> 0]

Exchange(op, id, p, error, status) ==
    [op |-> op, id |-> id, start |-> p.start, end |-> p.end,
     recurrence |-> p.recurrence,
     category |-> p.category, participantIds |-> p.participantIds,
     rangeStart |-> p.start,
     rangeEnd |-> conflictRangeEnd(p.start, p.end, p.recurrence),
     error |-> error, status |-> status]

IdleRequests == [r \in 1..2 |-> [pc |-> "idle", start |-> 0, end |-> 0,
                                 recurrence |-> NULL,
                                 category |-> DefaultCategory,
                                 participantIds |-> {}, status |-> 0]]

NoProbe ==
    [event |-> Row(NoId, 0, 0, NULL), more |-> <<>>, rangeStart |-> 0, rangeEnd |-> 0]
NotCalled == [called |-> FALSE, value |-> <<>>, error |-> "none"]

\* the composer's default values for a new event: no weekday selected
EmptyForm == [weekdays |-> {}, submitted |-> FALSE]

\* a connection of the stream route before its request arrives
NoStream ==
    [state |-> "none", listener |-> FALSE, keepAlive |-> FALSE,
     aborted |-> FALSE, cancelled |-> FALSE, chunks |-> 0, error |-> "none"]

NoStreams == [c \in 1..MaxConns |-> NoStream]

\* the page before its effect runs: eventSource = null, retryTimer = null.
\* sources are the EventSource objects created so far, timers the timeouts
\* set and neither fired nor cleared.
NoClient ==
    [phase |-> "idle", sources |-> <<>>, eventSource |-> 0,
     retryTimer |-> FALSE, timers |-> 0, delay |-> 0]

----------------------------------------------------------------------------
(* The service: writes *)

\* prisma.event.create in createEvent: the row written
createdRow(id, p) ==
    [Row(id, p.start, p.end, stringifyRecurrence(p.recurrence))
        EXCEPT !.category = p.category, !.participants = p.participantIds]

\* prisma.event.update in updateEvent: the table after the update.  A field
\* given as undefined is left as it is; the participants are all deleted and
\* those of participantIds created, none when it is undefined or empty.
updatedRows(rows, id, p) ==
    LET old == CHOOSE e \in rows : e.id = id
    IN  {e \in rows : e.id # id}
            \cup {[Row(id, p.start, p.end, stringifyRecurrence(p.recurrence))
                     EXCEPT !.category = IF p.category = Undefined
                                         THEN old.category ELSE p.category,
                            !.participants = p.participantIds]}

\* the payload the PATCH handler hands to updateEvent: title, description,
\* location, color, start, end, timezone and recurrence; updateSchema has no
\* category and no participantIds, and the handler passes neither
patchArguments(p) ==
    [p EXCEPT !.category = Undefined, !.participantIds = {}]

\* response status of POST /api/events for each way createEvent ends
postStatus(error) ==
    CASE error = "none" -> 201
      [] error = "EventConflictError" -> 409
      [] OTHER -> 500

\* response status of PATCH /api/events/[id] for each way updateEvent ends
patchStatus(error) ==
    CASE error = "none" -> 200
      [] OTHER -> 500

\* (mutant) deleteEvent that answers without removing the row
DELETEKeepsRow(id) ==
    LET error == IF \A e \in events : e.id # id THEN "RecordNotFound" ELSE "none"
    IN  /\ last' = [NoExchange EXCEPT !.op = "DELETE", !.id = id, !.error = error,
                        !.status = IF error = "none" THEN 200 ELSE 500]
        /\ UNCHANGED <<events, nextId, rq, probe, result, form, streams, client>>

\* (mutant) createEvent that inserts before it runs the guard
POSTInsertFirst(p) ==
    LET conflict == assertNoConflict(events, p.start, p.end, p.recurrence, NoId)
        error == IF conflict THEN "EventConflictError" ELSE "none"
    IN  /\ nextId <= MaxEvents
        /\ events' = events \cup {createdRow(nextId, p)}
        /\ nextId' = nextId + 1
        /\ last' = Exchange("POST", IF conflict THEN NoId ELSE nextId, p, error,
                            postStatus(error))
        /\ UNCHANGED <<rq, probe, result, form, streams, client>>

\* POST /api/events -> createEvent: the guard, then the insert
POST(p) ==
    LET conflict == assertNoConflict(events, p.start, p.end, p.recurrence, NoId)
    IN  /\ conflict \/ nextId <= MaxEvents
        /\ IF conflict
           THEN /\ last' = Exchange("POST", NoId, p, "EventConflictError",
                                    postStatus("EventConflictError"))
                /\ UNCHANGED <<events, nextId>>
           ELSE /\ events' = events \cup {createdRow(nextId, p)}
                /\ nextId' = nextId + 1
                /\ last' = Exchange("POST", nextId, p, "none", postStatus("none"))
        /\ UNCHANGED <<rq, probe, result, form, streams, client>>

\* PATCH /api/events/[id] -> updateEvent: the guard, then the update, which
\* fails when no row has the id
PATCH(id, p) ==
    LET conflict == assertNoConflict(events, p.start, p.end, p.recurrence, id)
        error == IF conflict THEN "EventConflictError"
                 ELSE IF \A e \in events : e.id # id THEN "RecordNotFound"
                 ELSE "none"
    IN  /\ events' = IF error = "none"
                      THEN updatedRows(events, id, patchArguments(p))
                      ELSE events
        /\ last' = Exchange("PATCH", id, p, error, patchStatus(error))
        /\ UNCHANGED <<nextId, rq, probe, result, form, streams, client>>

\* DELETE /api/events/[id] -> deleteEvent
DELETE(id) ==
    LET error == IF \A e \in events : e.id # id THEN "RecordNotFound" ELSE "none"
    IN  /\ events' = {e \in events : e.id # id}
        /\ last' = [NoExchange EXCEPT !.op = "DELETE", !.id = id, !.error = error,
                        !.status = IF error = "none" THEN 200 ELSE 500]
        /\ UNCHANGED <<nextId, rq, probe, result, form, streams, client>>

\* GET /api/events?start=..&end=.. -> getEventsInRange, without filters.
\* start and end are the query parameters: Absent when missing or empty, NaN
\* when new Date() cannot read them, else the instant.  A window with
\* rangeEnd < rangeStart reaches the query; when the query gives an event
\* without a rule, expandEvents calls isWithinInterval on that window, which
\* throws or not with the date-fns the build installs (dateFns2).
GET(start, end) ==
    \E dateFns2 \in BOOLEAN :
        LET rows == orderByStart({e \in events : inRangeWhere(e, start, end)})
            error ==
                IF start = Absent \/ end = Absent THEN "MissingParameters"
                ELSE IF start = NaN \/ end = NaN THEN "InvalidDate"
                ELSE IF expandEventsThrows(rows) THEN "TypeError"
                ELSE IF /\ dateFns2
                        /\ isWithinIntervalThrows(start, end)
                        /\ \E i \in 1..Len(rows) :
                              parseRecurrence(rows[i].recurrenceRule).kind = "null"
                     THEN "RangeError"
                ELSE "none"
            status ==
                CASE error \in {"MissingParameters", "InvalidDate"} -> 400
                  [] error = "none" -> 200
                  [] OTHER -> 500
        IN  /\ last' = [NoExchange EXCEPT !.op = "GET", !.start = start,
                            !.end = end, !.rangeStart = start, !.rangeEnd = end,
                            !.error = error, !.status = status]
            /\ result' =
                  IF status = 400 THEN NotCalled
                  ELSE [called |-> TRUE,
                        value |-> IF error = "none"
                                  THEN getEventsInRange(events, start, end)
                                  ELSE <<>>,
                        error |-> error]
            /\ UNCHANGED <<events, nextId, rq, probe, form, streams, client>>

Init ==
    /\ events = {}
    /\ nextId = 1
    /\ last = NoExchange
    /\ rq = IdleRequests
    /\ probe = NoProbe
    /\ result = NotCalled
    /\ form = EmptyForm
    /\ streams = NoStreams
    /\ client = NoClient

Next ==
    \/ \E p \in Payloads : POST(p)
    \/ \E id \in Ids, p \in Payloads : PATCH(id, p)
    \/ \E id \in Ids : DELETE(id)

\* requests handled one at a time
Spec == Init /\ [][Next]_vars

----------------------------------------------------------------------------
(* The overlap guard called on its own *)

\* longer than the six month horizon
LongDuration == addMonths(0, HORIZON_MONTHS) + 1

GuardPayloads ==
    {Body(BaseStart + k, BaseStart + k + d, r) :
        k \in 0..MaxSlot, d \in Durations \cup {LongDuration},
        r \in {NULL, MondayWeekly, MonWedUntil, MondayTwice}}

\* tables of at most two rows, as create requests leave them
GuardTables ==
    {{}} \cup {{createdRow(1, p)} : p \in Payloads}
         \cup {{createdRow(1, p), createdRow(2, q)} : p \in Payloads, q \in Payloads}

\* assertNoConflict(start, end, recurrence, excludeId) on the table as it is
Guard(p, excludeId) ==
    /\ last = NoExchange
    /\ last' = Exchange("guard", excludeId, p,
                        IF assertNoConflict(events, p.start, p.end,
                                            p.recurrence, excludeId)
                        THEN "EventConflictError" ELSE "none", 0)
    /\ UNCHANGED <<events, nextId, rq, probe, result, form, streams, client>>

InitGuard ==
    /\ events \in GuardTables
    /\ nextId = MaxEvents + 1
    /\ last = NoExchange
    /\ rq = IdleRequests
    /\ probe = NoProbe
    /\ result = NotCalled
    /\ form = EmptyForm
    /\ streams = NoStreams
    /\ client = NoClient

NextGuard == \E p \in GuardPayloads, x \in {NoId} \cup Ids : Guard(p, x)

SpecGuard == InitGuard /\ [][NextGuard]_vars

----------------------------------------------------------------------------
(* expandEvents called on its own *)

\* rules of stored events
MonWedFour == Rule({1, 3}, 1, 4, Absent)
FortnightUntil == Rule({0, 1}, 2, Absent, BaseStart + 3 * WeekLen)
WednesdayTwice == Rule({3}, Absent, 2, Absent)
NoWeekdays == Rule({}, 1, Absent, Absent)
FortnightThrice == Rule({0, 1}, 2, 3, Absent)
MonWedTwiceUntil == Rule({1, 3}, 1, 2, BaseStart + 2 * WeekLen)

WeekdaySeven == Rule({7}, 1, Absent, Absent)

ProbeRules ==
    {NULL, MondayWeekly, MonWedFour, FortnightUntil, WednesdayTwice, NoWeekdays,
     FortnightThrice, MonWedUntil, MondayTwice, MonWedTwiceUntil,
     Unparseable, NotAnObject, MissingWeekdays, WeekdaysNotArray, WeekdaySeven}

\* stored durations, among them end = start and end < start
ProbeDurations == {0 - 1, 0} \cup Durations \cup {WeekLen + 1}

ProbeEvents ==
    {Row(1, BaseStart + k, BaseStart + k + d, r) :
        k \in 0..MaxSlot, d \in ProbeDurations, r \in ProbeRules}

\* window bounds around the occurrences of the first three weeks, and the
\* midnights that start Jan 1, Jan 10 and Jan 11
ProbeInstants ==
    {DayLen, 10 * DayLen, 11 * DayLen,
     BaseStart - 1, BaseStart, BaseStart + 1, BaseStart + 2,
     BaseStart + 2 * DayLen, BaseStart + 2 * DayLen + 1,
     BaseStart + WeekLen, BaseStart + WeekLen + 2 * DayLen,
     BaseStart + 2 * WeekLen + 1, BaseStart + 4 * WeekLen}

Probes ==
    {[event |-> e, more |-> <<>>, rangeStart |-> a, rangeEnd |-> b] :
        e \in ProbeEvents,
        a \in ProbeInstants, b \in ProbeInstants}

\* expandEvents([event, ...more], rangeStart, rangeEnd)
CallExpand ==
    /\ ~result.called
    /\ result' = IF expandEventsThrows(<<probe.event>> \o probe.more)
                 THEN [called |-> TRUE, value |-> <<>>, error |-> "TypeError"]
                 ELSE [called |-> TRUE,
                       value |-> expandEvents(<<probe.event>> \o probe.more,
                                              probe.rangeStart, probe.rangeEnd),
                       error |-> "none"]
    /\ UNCHANGED <<events, nextId, last, rq, probe, form, streams, client>>

InitExpand ==
    /\ events = {}
    /\ nextId = 1
    /\ last = NoExchange
    /\ rq = IdleRequests
    /\ probe \in {q \in Probes : q.rangeStart <= q.rangeEnd}
    /\ result = NotCalled
    /\ form = EmptyForm
    /\ streams = NoStreams
    /\ client = NoClient

NextExpand == CallExpand

SpecExpand == InitExpand /\ [][NextExpand]_vars

----------------------------------------------------------------------------
(* expandEvents called on two events, in either order of their starts *)

FirstEvents ==
    {Row(1, BaseStart + k, BaseStart + k + 1, r) :
        k \in 0..MaxSlot, r \in {NULL, MondayWeekly, MonWedFour}}

SecondEvents ==
    {Row(2, BaseStart + k, BaseStart + k + 2, r) :
        k \in 0..MaxSlot, r \in {NULL, WednesdayTwice, FortnightUntil}}

ManyProbes ==
    {[event |-> e, more |-> <<f>>, rangeStart |-> a, rangeEnd |-> b] :
        e \in FirstEvents, f \in SecondEvents,
        a \in {BaseStart - 1, BaseStart + 1},
        b \in {BaseStart + 2, BaseStart + WeekLen + 2 * DayLen,
               BaseStart + 4 * WeekLen}}

InitExpandMany ==
    /\ events = {}
    /\ nextId = 1
    /\ last = NoExchange
    /\ rq = IdleRequests
    /\ probe \in ManyProbes
    /\ result = NotCalled
    /\ form = EmptyForm
    /\ streams = NoStreams
    /\ client = NoClient

SpecExpandMany == InitExpandMany /\ [][NextExpand]_vars

----------------------------------------------------------------------------
(* The overlap guard and updates on events of several categories, with and  *)
(* without participants                                                     *)

Categories == {DefaultCategory, "lesson"}
ParticipantSets == {{}, {"member-1"}}

AttrPayloads ==
    {[Body(BaseStart + k, BaseStart + k + 1, r)
        EXCEPT !.category = c, !.participantIds = m] :
        k \in 0..1, r \in {NULL, MondayWeekly}, c \in Categories,
        m \in ParticipantSets}

\* tables of one row, and of two rows of which the second starts later
AttrTables ==
    {{createdRow(1, p)} : p \in AttrPayloads}
        \cup {{createdRow(1, p), createdRow(2, q)} :
                p \in {x \in AttrPayloads : x.start = BaseStart /\ x.recurrence = NULL},
                q \in {x \in AttrPayloads : x.start = BaseStart + 1}}

InitAttrs ==
    /\ events \in AttrTables
    /\ nextId = MaxEvents + 1
    /\ last = NoExchange
    /\ rq = IdleRequests
    /\ probe = NoProbe
    /\ result = NotCalled
    /\ form = EmptyForm
    /\ streams = NoStreams
    /\ client = NoClient

NextAttrs ==
    \/ \E p \in AttrPayloads, x \in {NoId, 1} : Guard(p, x)
    \/ \E id \in 1..2, p \in AttrPayloads : PATCH(id, p)

SpecAttrs == InitAttrs /\ [][NextAttrs]_vars

----------------------------------------------------------------------------
(* Read requests on a table that create requests left *)

\* query parameters: missing, unreadable, and instants around the events
QueryParams == {Absent, NaN, BaseStart - 1, BaseStart + 1, BaseStart + WeekLen}

InitRead ==
    /\ events \in GuardTables
    /\ nextId = MaxEvents + 1
    /\ last = NoExchange
    /\ rq = IdleRequests
    /\ probe = NoProbe
    /\ result = NotCalled
    /\ form = EmptyForm
    /\ streams = NoStreams
    /\ client = NoClient

NextRead == \E start \in QueryParams, end \in QueryParams : GET(start, end)

SpecRead == InitRead /\ [][NextRead]_vars

----------------------------------------------------------------------------
(* The event composer: weekday buttons, submit, and the week's list *)

\* WEEKDAY_LABELS, Monday first: each label written as the day it names,
\* 0 = Sunday .. 6 = Saturday.  The button of index i shows WEEKDAY_LABELS[i + 1].
WEEKDAY_LABELS == <<1, 2, 3, 4, 5, 6, 0>>

\* toggleWeekday(weekday, selected, setValue): the new value of weekdays
toggleWeekday(weekday, selected) ==
    IF weekday \in selected THEN selected \ {weekday} ELSE selected \cup {weekday}

\* buildRecurrence(values) and normalizeRecurrence on the way to the wire, for
\* the form's default interval and repeat mode
buildRecurrence(values) ==
    IF values.weekdays = {} THEN NULL ELSE Rule(values.weekdays, 1, Absent, Absent)

\* a click on the weekday button of the given index
ToggleWeekday(index) ==
    /\ ~form.submitted
    /\ form' = [form EXCEPT !.weekdays = toggleWeekday(index, @)]
    /\ UNCHANGED <<events, nextId, last, rq, probe, result, streams, client>>

\* onSubmitInternal -> createEvent (api) -> POST /api/events, for an event on
\* Monday 2024-01-01 from 09:00 to 10:00
Submit ==
    LET p == Body(BaseStart, BaseStart + 2, buildRecurrence(form))
        conflict == assertNoConflict(events, p.start, p.end, p.recurrence, NoId)
    IN  /\ ~form.submitted
        /\ nextId <= MaxEvents
        /\ IF conflict
           THEN /\ last' = Exchange("POST", NoId, p, "EventConflictError",
                                    postStatus("EventConflictError"))
                /\ UNCHANGED <<events, nextId>>
           ELSE /\ events' = events \cup {createdRow(nextId, p)}
                /\ nextId' = nextId + 1
                /\ last' = Exchange("POST", nextId, p, "none", postStatus("none"))
        /\ form' = [form EXCEPT !.submitted = TRUE]
        /\ UNCHANGED <<rq, probe, result, streams, client>>

\* the week the calendar shows: Monday 2024-01-01 00:00 to the last instant of
\* Sunday 2024-01-07
WeekShown == [start |-> DayLen, end |-> 8 * DayLen - 1]

NextCompose ==
    \/ \E index \in 0..6 : ToggleWeekday(index)
    \/ Submit
    \/ GET(WeekShown.start, WeekShown.end)

SpecCompose == Init /\ [][NextCompose]_vars

----------------------------------------------------------------------------
(* Two create requests whose handlers interleave at their awaits *)

\* createEvent up to the end of `await assertNoConflict(...)`
CreateCheck(r, p) ==
    /\ rq[r].pc = "idle"
    /\ LET conflict == assertNoConflict(events, p.start, p.end, p.recurrence, NoId)
       IN  rq' = [rq EXCEPT ![r] =
                    [pc |-> IF conflict THEN "done" ELSE "checked",
                     start |-> p.start, end |-> p.end, recurrence |-> p.recurrence,
                     category |-> p.category, participantIds |-> p.participantIds,
                     status |-> IF conflict THEN postStatus("EventConflictError")
                                ELSE 0]]
    /\ UNCHANGED <<events, nextId, last, probe, result, form, streams, client>>

\* (mutant) an insert that runs the guard again in the same step and gives up
\* on a conflict
CreateWriteRechecked(r) ==
    /\ rq[r].pc = "checked"
    /\ IF assertNoConflict(events, rq[r].start, rq[r].end, rq[r].recurrence, NoId)
       THEN /\ rq' = [rq EXCEPT ![r].pc = "done",
                                ![r].status = postStatus("EventConflictError")]
            /\ UNCHANGED <<events, nextId>>
       ELSE /\ events' = events \cup {createdRow(nextId, rq[r])}
            /\ nextId' = nextId + 1
            /\ rq' = [rq EXCEPT ![r].pc = "done", ![r].status = postStatus("none")]
    /\ UNCHANGED <<last, probe, result, form, streams, client>>

\* createEvent from `await prisma.event.create(...)` to the response
CreateWrite(r) ==
    /\ rq[r].pc = "checked"
    /\ events' = events \cup {createdRow(nextId, rq[r])}
    /\ nextId' = nextId + 1
    /\ rq' = [rq EXCEPT ![r].pc = "done", ![r].status = postStatus("none")]
    /\ UNCHANGED <<last, probe, result, form, streams, client>>

NextConc ==
    \/ \E r \in 1..2, p \in Payloads : CreateCheck(r, p)
    \/ \E r \in 1..2 : CreateWrite(r)

SpecConc == Init /\ [][NextConc]_vars

----------------------------------------------------------------------------
(* The events stream: the route's connections and the page's subscription *)

RETRY_MS == 5000

\* controller.enqueue(chunk): a chunk more on a readable stream, a TypeError
\* once the controller is closed
enqueue(s) ==
    IF s.state = "readable"
    THEN [s EXCEPT !.chunks = s.chunks + 1]
    ELSE [s EXCEPT !.error = "enqueue on a closed stream"]

\* cleanup = () => { clearInterval(keepAlive); eventBus.off(..., listener) }
cleanup(s) == [s EXCEPT !.keepAlive = FALSE, !.listener = FALSE]

\* controller.close(): a TypeError when the stream was cancelled before;
\* else the stream closes, at once when its queue is empty (drained) and
\* when the reader has taken the queued chunks otherwise
controllerClose(s, drained) ==
    IF s.state = "readable"
    THEN [s EXCEPT !.state = IF drained THEN "closed" ELSE "closing"]
    ELSE [s EXCEPT !.error = "close on a closed stream"]

\* GET: start(controller) sends "connected", registers the listener, the
\* keep-alive interval and the abort listener, and enqueues "ready"
StreamStart(c) ==
    /\ c <= Len(client.sources)
    /\ streams[c].state = "none"
    /\ streams' = [streams EXCEPT ![c] =
            enqueue(enqueue([@ EXCEPT !.state = "readable",
                                      !.listener = TRUE,
                                      !.keepAlive = TRUE]))]
    /\ UNCHANGED <<events, nextId, last, rq, probe, result, form, client>>

\* the abort listener of request.signal: cleanup?.(); controller.close()
Abort(c) ==
    /\ streams[c].state # "none"
    /\ ~streams[c].aborted
    /\ \E drained \in BOOLEAN :
            streams' = [streams EXCEPT ![c] =
                controllerClose(cleanup([@ EXCEPT !.aborted = TRUE]), drained)]
    /\ UNCHANGED <<events, nextId, last, rq, probe, result, form, client>>

\* a cancel() that leaves the listener and the interval in place
CancelNoCleanup(c) ==
    /\ streams[c].state \in {"readable", "closing"}
    /\ streams' = [streams EXCEPT ![c] =
            [@ EXCEPT !.cancelled = TRUE, !.state = "closed"]]
    /\ UNCHANGED <<events, nextId, last, rq, probe, result, form, client>>

\* cancel() of the underlying source: cleanup?.().  The stream calls it when
\* its consumer cancels a stream that is not closed yet.
Cancel(c) ==
    /\ streams[c].state \in {"readable", "closing"}
    /\ streams' = [streams EXCEPT ![c] =
            cleanup([@ EXCEPT !.cancelled = TRUE, !.state = "closed"])]
    /\ UNCHANGED <<events, nextId, last, rq, probe, result, form, client>>

\* the reader takes the last queued chunk of a stream whose close is pending
Drain(c) ==
    /\ streams[c].state = "closing"
    /\ streams' = [streams EXCEPT ![c].state = "closed"]
    /\ UNCHANGED <<events, nextId, last, rq, probe, result, form, client>>

\* the interval's callback: controller.enqueue(": keep-alive")
KeepAliveTick(c) ==
    /\ streams[c].keepAlive
    /\ streams[c].chunks < MaxChunks
    /\ streams' = [streams EXCEPT ![c] = enqueue(@)]
    /\ UNCHANGED <<events, nextId, last, rq, probe, result, form, client>>

\* eventBus emits "events:changed": every registered listener sends the
\* payload on its stream
Notify ==
    /\ \E c \in 1..MaxConns : streams[c].listener
    /\ \A c \in 1..MaxConns : streams[c].listener => streams[c].chunks < MaxChunks
    /\ streams' = [c \in 1..MaxConns |->
            IF streams[c].listener THEN enqueue(streams[c]) ELSE streams[c]]
    /\ UNCHANGED <<events, nextId, last, rq, probe, result, form, client>>

\* connect(): closes the source at hand, if any, and opens a new one
connect(cl) ==
    LET closed == IF cl.eventSource # 0
                  THEN [cl.sources EXCEPT ![cl.eventSource] = "closed"]
                  ELSE cl.sources
    IN  [cl EXCEPT !.sources = Append(closed, "open"),
                   !.eventSource = Len(closed) + 1]

\* the effect runs: connect()
Mount ==
    /\ client.phase = "idle"
    /\ client' = connect([client EXCEPT !.phase = "mounted"])
    /\ UNCHANGED <<events, nextId, last, rq, probe, result, form, streams>>

\* onerror of an open source: eventSource?.close(), and a timeout of 5000 ms
\* unless retryTimer is set
SourceError(i) ==
    /\ i \in 1..Len(client.sources)
    /\ client.sources[i] = "open"
    /\ client' = [client EXCEPT
            !.sources = [@ EXCEPT ![client.eventSource] = "closed"],
            !.retryTimer = TRUE,
            !.timers = IF client.retryTimer THEN @ ELSE @ + 1,
            !.delay = IF client.retryTimer THEN @ ELSE RETRY_MS]
    /\ UNCHANGED <<events, nextId, last, rq, probe, result, form, streams>>

\* the timeout fires: retryTimer = null; connect()
RetryFire ==
    /\ client.timers > 0
    /\ Len(client.sources) < MaxConns
    /\ client' = connect([client EXCEPT !.retryTimer = FALSE,
                                        !.timers = @ - 1])
    /\ UNCHANGED <<events, nextId, last, rq, probe, result, form, streams>>

\* a cleanup that closes the source and leaves the timeout pending
CleanupKeepsTimer ==
    /\ client.phase = "mounted"
    /\ client' = [client EXCEPT
            !.phase = "unmounted",
            !.sources = [@ EXCEPT ![client.eventSource] = "closed"]]
    /\ UNCHANGED <<events, nextId, last, rq, probe, result, form, streams>>

\* the effect's cleanup: eventSource?.close(); clearTimeout(retryTimer)
Cleanup ==
    /\ client.phase = "mounted"
    /\ client' = [client EXCEPT
            !.phase = "unmounted",
            !.sources = [@ EXCEPT ![client.eventSource] = "closed"],
            !.timers = IF client.retryTimer THEN @ - 1 ELSE @]
    /\ UNCHANGED <<events, nextId, last, rq, probe, result, form, streams>>

NextStream ==
    \/ Mount
    \/ \E i \in 1..MaxConns : SourceError(i)
    \/ RetryFire
    \/ Cleanup
    \/ \E c \in 1..MaxConns : StreamStart(c)
    \/ \E c \in 1..MaxConns : Abort(c)
    \/ \E c \in 1..MaxConns : Cancel(c)
    \/ \E c \in 1..MaxConns : Drain(c)
    \/ \E c \in 1..MaxConns : KeepAliveTick(c)
    \/ Notify

SpecStream == Init /\ [][NextStream]_vars

----------------------------------------------------------------------------
(* What the claims speak of: the occurrences of an event, said without the  *)
(* expander.                                                                *)

\* the rule of a stored event, when it has one with weekdays, all in 0..6
HasRule(e) ==
    /\ e.recurrenceRule.kind = "rule"
    /\ e.recurrenceRule.weekdays # {}
    /\ e.recurrenceRule.weekdays \subseteq 0..6

RuleInterval(e) ==
    IF e.recurrenceRule.interval = Absent THEN 1 ELSE e.recurrenceRule.interval

\* the Monday on or before day d (day 1 is a Monday)
MondayOf(d) == CHOOSE m \in (d - 6) .. d : m % 7 = 1

\* day d holds an instant of the weekly sequence of e, cut by until only
OnSequence(e, d) ==
    /\ d >= dayOf(e.start)
    /\ d % 7 \in e.recurrenceRule.weekdays
    /\ ((MondayOf(d) - MondayOf(dayOf(e.start))) \div 7) % RuleInterval(e) = 0
    /\ \/ e.recurrenceRule.until = Absent
       \/ d * DayLen + timeOfDay(e.start) <= e.recurrenceRule.until

\* the start instants of e's sequence on the days first .. lastDay
SequenceStarts(e, first, lastDay) ==
    {d * DayLen + timeOfDay(e.start) :
        d \in {x \in first .. lastDay :
                 /\ OnSequence(e, x)
                 /\ \/ e.recurrenceRule.count = Absent
                    \/ Cardinality({y \in dayOf(e.start) .. x : OnSequence(e, y)})
                          <= e.recurrenceRule.count}}

OccurrenceLength(e) == Max(e.end - e.start, MIN_DURATION)

\* the occurrences of e that start on or before day lastDay
OccurrencesOf(e, lastDay) ==
    IF HasRule(e)
    THEN {[start |-> t, end |-> t + OccurrenceLength(e)] :
            t \in SequenceStarts(e, dayOf(e.start), lastDay)}
    ELSE {[start |-> e.start, end |-> e.end]}

\* the window [a, b] holds event.start and every instant of e's sequence (the
\* sequence of a rule with count N ends within N * interval weeks)
CoversSequence(e, a, b) ==
    /\ a <= e.start
    /\ \A s \in SequenceStarts(e, dayOf(e.start),
                    dayOf(e.start) + 7 * RuleInterval(e) * e.recurrenceRule.count) :
            s <= b

\* the test by which expansion over [a, b] selects occurrence o: the start in
\* the window for an occurrence of a rule, and for a one-off event the start
\* in the window, the end in the window, or the event around the window
SelectedBy(o, a, b) ==
    IF o.isRecurring
    THEN a <= o.start /\ o.start <= b
    ELSE \/ (a <= o.start /\ o.start <= b)
         \/ (a <= o.end /\ o.end <= b)
         \/ (o.start <= a /\ o.end >= b)

\* the occurrences of list v that the window [a, b] selects, in v's order
KeepSelected(v, a, b) == SelectSeq(v, LAMBDA o : SelectedBy(o, a, b))

\* a column value that is not null and not a rule with weekdays in 0..6
Corrupt(value) ==
    \/ value.kind \in {"unparseable", "notObject", "noWeekdays", "weekdaysNotArray"}
    \/ /\ value.kind = "rule"
       /\ (value.weekdays = {} \/ \E d \in value.weekdays : d \notin 0..6)

\* windows of listOccurrences around the events of the table
ListWindows ==
    {[start |-> a, end |-> b] :
        a \in {BaseStart - 1, BaseStart + 1},
        b \in {BaseStart + 1, BaseStart + 2, BaseStart + WeekLen + 2}}

\* the occurrences of list v that do not come from event id, in v's order
WithoutSource(v, id) == SelectSeq(v, LAMBDA o : o.sourceEventId # id)

\* event E1 of the scenario: Monday 2024-01-01 09:00-10:00, weekly on Monday
\* and Wednesday, interval 1, count 4
E1 == Row(1, BaseStart, BaseStart + 2, MonWedFour)

\* 09:00 on the given day of January 2024
NineOn(day) == day * DayLen + 18

\* the start instants of list v, in v's order
StartsOf(v) == [i \in 1..Len(v) |-> v[i].start]

\* the table with every row's category and participants set to the defaults
Plain(rows) ==
    {[e EXCEPT !.category = DefaultCategory, !.participants = {}] : e \in rows}

\* the (start, end) pairs of a list of occurrences
PairsOf(v) == {[start |-> v[i].start, end |-> v[i].end] : i \in 1..Len(v)}

\* two occurrences share a stretch of positive length
PositiveOverlap(a, b) == a.start < b.end /\ b.start < a.end

\* the horizon of the guard for a stored event taken as the candidate
HorizonOf(e) ==
    [start |-> e.start,
     end |-> Max(IF e.recurrenceRule.until # Absent THEN e.recurrenceRule.until
                 ELSE e.start + HORIZON_MONTHS * MonthLen * DayLen, e.end)]

StartsInHorizon(e, f) == HorizonOf(f).start <= e.start /\ e.start <= HorizonOf(f).end

\* the request of the last exchange
LastBody ==
    [Body(last.start, last.end, last.recurrence)
        EXCEPT !.category = last.category, !.participantIds = last.participantIds]

\* the last request carries exactly the stored fields of row e
Unchanged(e) ==
    /\ last.id = e.id
    /\ createdRow(e.id, LastBody) = e

----------------------------------------------------------------------------
(* Claims *)

\* C1: with requests handled one at a time from an empty table, no two
\* distinct stored events of which one starts inside the other's conflict
\* horizon have occurrences that overlap by a positive duration.
C1_NoDoubleBooking ==
    \A e \in events : \A f \in events :
        (e.id # f.id /\ StartsInHorizon(f, e)) =>
            \A a \in OccurrencesOf(e, dayOf(HorizonOf(e).end)) :
                \A b \in OccurrencesOf(f, dayOf(HorizonOf(e).end)) :
                    ~PositiveOverlap(a, b)

\* C2: a create or update ends in a schedule conflict exactly when some
\* candidate occurrence A and some occurrence B of another stored event in the
\* scanned window satisfy A.start < B.end and A.end > B.start; back-to-back
\* occurrences do not conflict.
C2_StrictOverlap ==
    [][last'.op \in {"POST", "PATCH"} =>
        LET A == generateCandidateOccurrences(last'.start, last'.end,
                    last'.recurrence, last'.rangeStart, last'.rangeEnd)
            B == getEventsInRange(events, last'.rangeStart, last'.rangeEnd)
        IN  (last'.error = "EventConflictError") <=>
                \E i \in 1..Len(A), j \in 1..Len(B) :
                    /\ B[j].sourceEventId # last'.id
                    /\ A[i].start < B[j].end
                    /\ A[i].end > B[j].start]_vars

\* C3: updating a stored event with its own unchanged start, end and
\* recurrence succeeds when no occurrence of another stored event overlaps one
\* of its occurrences.
C3_UnchangedUpdateSucceeds ==
    [][\A e \in events :
        (/\ last'.op = "PATCH"
         /\ Unchanged(e)'
         /\ \A f \in events \ {e} :
              \A a \in OccurrencesOf(e, dayOf(HorizonOf(e).end) + 1) :
                \A b \in OccurrencesOf(f, dayOf(HorizonOf(e).end) + 1) :
                    ~PositiveOverlap(a, b))
        => (last'.error = "none" /\ last'.status = 200)]_vars

\* C4: a create or update that ends in a schedule conflict leaves the table,
\* and every row of it, exactly as it was before the request.
C4_ConflictLeavesTable ==
    [][(last'.op \in {"POST", "PATCH"} /\ last'.error = "EventConflictError")
        => (events' = events /\ nextId' = nextId)]_vars

\* C4 witness: a create was refused with a conflict while the table holds a row
C4_Witness ==
    /\ last.op = "POST"
    /\ last.error = "EventConflictError"
    /\ events # {}

\* C7: a create or update refused for a schedule conflict answers 409, on the
\* create endpoint and on the update endpoint alike.
C7_ConflictIs409 ==
    (last.op \in {"POST", "PATCH"} /\ last.error = "EventConflictError")
        => last.status = 409

\* C5: when two create requests run concurrently, a request that has passed
\* the guard inserts its row whatever the table holds by then, and a check
\* that has passed is not taken back by the other request's insert: nothing
\* excludes two overlapping creates both succeeding.
C5_CheckThenAct ==
    [][\A r \in 1..2 :
        rq[r].pc = "checked" =>
            \/ rq'[r] = rq[r]
            \/ /\ rq'[r].pc = "done"
               /\ rq'[r].status = 201
               /\ events' = events \cup {createdRow(nextId, rq[r])}]_vars

\* C5 witness: both requests were answered 201 and the table holds two
\* one-off events that overlap by a positive duration
C5_Witness ==
    /\ \A r \in 1..2 : rq[r].pc = "done" /\ rq[r].status = 201
    /\ \E e \in events : \E f \in events :
            /\ e.id # f.id
            /\ e.recurrenceRule.kind = "null" /\ f.recurrenceRule.kind = "null"
            /\ e.start < f.end /\ f.start < e.end

\* C6 (as amended): the guard scans [candidateStart, horizonEnd] with
\* horizonEnd the later of candidateEnd and of the rule's until when the rule
\* has one, else of candidateStart + 6 months.
C6_Horizon ==
    last.op = "guard" =>
        /\ last.rangeStart = last.start
        /\ last.rangeEnd =
              Max(IF last.recurrence.until # Absent
                  THEN last.recurrence.until
                  ELSE last.start + HORIZON_MONTHS * MonthLen * DayLen,
                  last.end)

\* C6 witness: a candidate whose rule ends before candidateStart + 6 months
\* and after candidateEnd was scanned up to until only
C6_Witness ==
    /\ last.op = "guard"
    /\ last.recurrence.until # Absent
    /\ last.recurrence.until > last.end
    /\ last.recurrence.until < last.start + HORIZON_MONTHS * MonthLen * DayLen
    /\ last.rangeEnd = last.recurrence.until

\* C6 (as claimed): horizonEnd is the maximum of until (when present),
\* candidateStart + 6 months and candidateEnd.
C6_HorizonMaxOfThree ==
    last.op = "guard" =>
        /\ last.rangeStart = last.start
        /\ last.rangeEnd =
              Max(Max(last.recurrence.until,
                      last.start + HORIZON_MONTHS * MonthLen * DayLen),
                  last.end)

\* C8: for an event without a recurrence rule and a window with
\* rangeStart <= rangeEnd, expansion emits exactly one occurrence, equal to
\* {start: event.start, end: event.end}, when event.start is in the window or
\* event.end is in the window or the event contains the window, and none
\* otherwise.
C8_OneOffOccurrence ==
    (result.called /\ probe.event.recurrenceRule.kind = "null") =>
        LET e == probe.event
            a == probe.rangeStart
            b == probe.rangeEnd
        IN  IF \/ (a <= e.start /\ e.start <= b)
               \/ (a <= e.end /\ e.end <= b)
               \/ (e.start <= a /\ b <= e.end)
            THEN /\ Len(result.value) = 1
                 /\ result.value[1].start = e.start
                 /\ result.value[1].end = e.end
            ELSE result.value = <<>>

\* C8 witness: an event that starts before the window and ends after it was
\* expanded to its one occurrence
C8_Witness ==
    /\ result.called
    /\ probe.event.recurrenceRule.kind = "null"
    /\ probe.event.start < probe.rangeStart
    /\ probe.event.end > probe.rangeEnd
    /\ Len(result.value) = 1

\* C9: for an event with a recurrence rule, expansion emits one occurrence for
\* each start instant s of the rule's sequence with rangeStart <= s <= rangeEnd
\* and no other, each with end = s + max(event.end - event.start, 30 minutes).
C9_RuleOccurrences ==
    (result.called /\ HasRule(probe.event)) =>
        LET e == probe.event
            a == probe.rangeStart
            b == probe.rangeEnd
            expected == {s \in SequenceStarts(e, dayOf(a), dayOf(b)) : a <= s /\ s <= b}
        IN  /\ Len(result.value) = Cardinality(expected)
            /\ {result.value[i].start : i \in 1..Len(result.value)} = expected
            /\ \A i \in 1..Len(result.value) :
                    result.value[i].end =
                        result.value[i].start + Max(e.end - e.start, MIN_DURATION)

\* C9 witness: a recurring event stored with end <= start was expanded to two
\* or more occurrences, the last starting exactly at rangeEnd
C9_Witness ==
    /\ result.called
    /\ HasRule(probe.event)
    /\ probe.event.end <= probe.event.start
    /\ Len(result.value) >= 2
    /\ result.value[Len(result.value)].start = probe.rangeEnd

\* C10: expansion of a stored event (end > start, its rule null or sound) over
\* a window returns every occurrence of the event that fully or partially
\* intersects the window: every occurrence that starts in the window, and
\* every occurrence that starts before rangeStart and ends after rangeStart, of
\* a recurring event too.
C10_EveryIntersecting ==
    (/\ result.called
     /\ probe.event.end > probe.event.start
     /\ ~Corrupt(probe.event.recurrenceRule)) =>
        \A o \in OccurrencesOf(probe.event, dayOf(probe.rangeEnd)) :
            (\/ (probe.rangeStart <= o.start /\ o.start <= probe.rangeEnd)
             \/ (o.start < probe.rangeStart /\ o.end > probe.rangeStart)) =>
                \E i \in 1..Len(result.value) :
                    /\ result.value[i].start = o.start
                    /\ result.value[i].end = o.end

\* C11: for a recurring event with count = N and no until, expanded over a
\* window that covers the whole sequence, there are exactly N occurrences, none
\* starts before event.start, each falls on a weekday of the rule's set, and
\* consecutive occurrences on the same weekday are interval weeks apart.
C11_CountedSequence ==
    (/\ result.called
     /\ HasRule(probe.event)
     /\ probe.event.recurrenceRule.count # Absent
     /\ probe.event.recurrenceRule.until = Absent
     /\ CoversSequence(probe.event, probe.rangeStart, probe.rangeEnd)) =>
        LET e == probe.event
            v == result.value
        IN  /\ Len(v) = e.recurrenceRule.count
            /\ \A i \in 1..Len(v) :
                    /\ v[i].start >= e.start
                    /\ getUTCDay(v[i].start) \in e.recurrenceRule.weekdays
            /\ \A i \in 1..Len(v) : \A j \in 1..Len(v) :
                    (/\ v[i].start < v[j].start
                     /\ getUTCDay(v[i].start) = getUTCDay(v[j].start)
                     /\ \A k \in 1..Len(v) :
                            (v[i].start < v[k].start /\ v[k].start < v[j].start)
                                => getUTCDay(v[k].start) # getUTCDay(v[i].start))
                    => v[j].start - v[i].start = RuleInterval(e) * WeekLen

\* C11 witness: a rule with count 3 and interval 2 was expanded over a window
\* that covers its sequence, two of the occurrences falling on the same weekday
C11_Witness ==
    /\ result.called
    /\ probe.event.recurrenceRule = FortnightThrice
    /\ CoversSequence(probe.event, probe.rangeStart, probe.rangeEnd)
    /\ Len(result.value) = 3
    /\ getUTCDay(result.value[1].start) = getUTCDay(result.value[3].start)

\* C12: no occurrence of a recurring event with until = U starts later than U,
\* whatever the window: neither an occurrence expanded on the read path nor a
\* candidate occurrence generated for the conflict check.
C12_NoStartAfterUntil ==
    (/\ result.called
     /\ HasRule(probe.event)
     /\ probe.event.recurrenceRule.until # Absent) =>
        LET e == probe.event
            candidates == generateCandidateOccurrences(e.start, e.end,
                              e.recurrenceRule, probe.rangeStart, probe.rangeEnd)
        IN  /\ \A i \in 1..Len(result.value) :
                    result.value[i].start <= e.recurrenceRule.until
            /\ \A i \in 1..Len(candidates) :
                    candidates[i].start <= e.recurrenceRule.until

\* C12 witness: a fortnightly rule with until was expanded over a window that
\* ends on a later instant of the rule's weekdays and weeks, four weeks after
\* event.start, and gave the four occurrences up to until
C12_Witness ==
    /\ result.called
    /\ probe.event.recurrenceRule = FortnightUntil
    /\ probe.rangeStart <= probe.event.start
    /\ probe.rangeEnd = probe.event.start + 4 * WeekLen
    /\ probe.rangeEnd > probe.event.recurrenceRule.until
    /\ Len(result.value) = 4

\* C13: for a rule with both count = N and until = U the occurrences are those
\* of the sequence without bounds cut at whichever bound comes first: the
\* first N instants that start at or before U, and nothing else.
C13_CountAndUntil ==
    (/\ result.called
     /\ HasRule(probe.event)
     /\ probe.event.recurrenceRule.count # Absent
     /\ probe.event.recurrenceRule.until # Absent) =>
        LET e == probe.event
            free == [e EXCEPT !.recurrenceRule.count = Absent,
                              !.recurrenceRule.until = Absent]
            unbounded == SequenceStarts(free, dayOf(e.start), dayOf(probe.rangeEnd))
            upToU == {s \in unbounded : s <= e.recurrenceRule.until}
            firstN == {s \in upToU :
                         Cardinality({u \in upToU : u <= s}) <= e.recurrenceRule.count}
        IN  {result.value[i].start : i \in 1..Len(result.value)} =
                {s \in firstN : probe.rangeStart <= s /\ s <= probe.rangeEnd}

\* C13 witness: a rule with count 2 whose until lies after its second instant
\* was expanded over a window reaching past until, and gave two occurrences
C13_Witness ==
    /\ result.called
    /\ probe.event.recurrenceRule = MonWedTwiceUntil
    /\ probe.rangeStart <= probe.event.start
    /\ probe.rangeEnd > probe.event.recurrenceRule.until
    /\ Len(result.value) = 2

\* C14: windowing commutes with expansion: for a stored event and windows W'
\* within W, expanding over W and keeping the occurrences that W' selects (by
\* the test expansion uses) gives the same list as expanding over W'.
C14_WindowingCommutes ==
    (result.called /\ result.error = "none") =>
        \A a \in ProbeInstants : \A b \in ProbeInstants :
            (probe.rangeStart <= a /\ a <= b /\ b <= probe.rangeEnd) =>
                KeepSelected(result.value, a, b) =
                    expandEvents(<<probe.event>>, a, b)

\* C14 witness: an event with a counted rule was expanded over a window to
\* three or more occurrences, of which a window inside it that starts later
\* keeps some and not all
C14_Witness ==
    /\ result.called
    /\ HasRule(probe.event)
    /\ probe.event.recurrenceRule.count # Absent
    /\ Len(result.value) >= 3
    /\ \E a \in ProbeInstants :
            /\ probe.rangeStart < a /\ a <= probe.rangeEnd
            /\ KeepSelected(result.value, a, probe.rangeEnd) # <<>>
            /\ KeepSelected(result.value, a, probe.rangeEnd) # result.value

\* C15: expansion never fails on a corrupt persisted rule: for a stored
\* recurrenceRule that is unparseable, is not a rule object, has missing, empty
\* or non-array weekdays, or has a weekday outside 0..6, expansion raises
\* nothing and returns what it returns for the same event with a null rule.
C15_CorruptRuleDegrades ==
    (result.called /\ Corrupt(probe.event.recurrenceRule)) =>
        /\ result.error = "none"
        /\ result.value =
              expandEvents(<<[probe.event EXCEPT !.recurrenceRule = NULL]>>,
                           probe.rangeStart, probe.rangeEnd)

\* C15 for the rules parseRecurrence turns away: unparseable text, text that
\* is not an object, missing or empty weekdays
C15_ParseRejected ==
    (/\ result.called
     /\ Corrupt(probe.event.recurrenceRule)
     /\ parseRecurrence(probe.event.recurrenceRule).kind = "null") =>
        /\ result.error = "none"
        /\ result.value =
              expandEvents(<<[probe.event EXCEPT !.recurrenceRule = NULL]>>,
                           probe.rangeStart, probe.rangeEnd)

\* C16: weekday index w is the same weekday in every component, 0 = Sunday to
\* 6 = Saturday: the weekdays of the buttons selected in the composer, the
\* indices stored from the wire, the weekdays on which the expander generates
\* occurrences and the weekdays the recurrence summary names are the same days.
C16_SameWeekday ==
    (/\ form.submitted
     /\ form.weekdays # {}
     /\ last.op = "GET"
     /\ result.error = "none") =>
        LET selected == {WEEKDAY_LABELS[i + 1] : i \in form.weekdays}
        IN  /\ \A e \in events : e.recurrenceRule.weekdays = selected
            /\ {getUTCDay(result.value[i].start) : i \in 1..Len(result.value)}
                    = selected
            /\ \A i \in 1..Len(result.value) :
                    result.value[i].recurrenceSummary = selected

\* C16, server side only: the stored indices, the weekdays of the occurrences
\* and the weekdays the summary names agree, read with 0 = Sunday
C16_ServerWeekdays ==
    (form.submitted /\ form.weekdays # {} /\ last.op = "GET"
        /\ result.error = "none") =>
        /\ {getUTCDay(result.value[i].start) : i \in 1..Len(result.value)}
                = form.weekdays
        /\ \A i \in 1..Len(result.value) :
                result.value[i].recurrenceSummary = form.weekdays

\* C18: a read request whose window has rangeEnd < rangeStart, or whose start
\* or end is missing or unreadable as an instant, is rejected as an invalid
\* window (status 400) before the store is queried or anything is expanded.
C18_InvalidWindowRejected ==
    (/\ last.op = "GET"
     /\ \/ last.start \in {Absent, NaN}
        \/ last.end \in {Absent, NaN}
        \/ last.end < last.start) =>
        /\ last.status = 400
        /\ ~result.called

\* C18 for missing and unreadable parameters alone
C18_MissingOrUnreadable ==
    (last.op = "GET" /\ (last.start \in {Absent, NaN} \/ last.end \in {Absent, NaN}))
        => (last.status = 400 /\ ~result.called)

\* C17: every event the store holds has end > start, after any sequence of
\* create and update requests the server API accepted.
C17_EndAfterStart ==
    \A e \in events : e.end > e.start

\* C19: deleteEvent(id) removes the whole series: after it succeeds no
\* listOccurrences result, for any window, holds an occurrence with
\* sourceEventId = id, and the occurrences of every other stored event are
\* what they were before the delete; every occurrence listed carries the id
\* of the stored event it comes from as sourceEventId.
C19_DeleteRemovesSeries ==
    [][(last'.op = "DELETE" /\ last'.error = "none") =>
        \A w \in ListWindows :
            LET before == getEventsInRange(events, w.start, w.end)
                after == getEventsInRange(events', w.start, w.end)
            IN  /\ \A i \in 1..Len(after) : after[i].sourceEventId # last'.id
                /\ after = WithoutSource(before, last'.id)
                /\ \A i \in 1..Len(before) :
                        \E e \in events :
                            /\ before[i].sourceEventId = e.id
                            /\ before[i].start >= e.start]_vars

\* C19 witness: a delete succeeded and left in the table a recurring event
\* that still has occurrences in a window
C19_Witness ==
    /\ last.op = "DELETE"
    /\ last.error = "none"
    /\ \E e \in events :
            /\ e.recurrenceRule.kind = "rule"
            /\ e.id # last.id
    /\ \E w \in ListWindows : getEventsInRange(events, w.start, w.end) # <<>>

\* C20 (as amended): for E1, listOccurrences over the window from 2024-01-01
\* 00:00 to 2024-01-10 00:00 returns exactly three occurrences, at 09:00 on
\* Jan 1, Jan 3 and Jan 8 (the fourth starts after rangeEnd); over a window
\* that ends at 2024-01-10 09:00 or at 2024-01-11 00:00 it returns exactly
\* four, at 09:00 on Jan 1, Jan 3, Jan 8 and Jan 10, each one hour long.
C20_Scenario ==
    (result.called /\ probe.event = E1 /\ probe.rangeStart = DayLen) =>
        /\ probe.rangeEnd = 10 * DayLen =>
                StartsOf(result.value) = <<NineOn(1), NineOn(3), NineOn(8)>>
        /\ probe.rangeEnd \in {NineOn(10), 11 * DayLen} =>
                StartsOf(result.value)
                    = <<NineOn(1), NineOn(3), NineOn(8), NineOn(10)>>
        /\ \A i \in 1..Len(result.value) :
                result.value[i].end = result.value[i].start + 2

\* C20 witness: E1 was expanded over the window from 2024-01-01 00:00 to
\* 2024-01-10 00:00 and the list has three occurrences
C20_Witness ==
    /\ result.called
    /\ probe.event = E1
    /\ probe.rangeStart = DayLen
    /\ probe.rangeEnd = 10 * DayLen
    /\ Len(result.value) = 3

\* C20 (as claimed): for E1, listOccurrences over the window [2024-01-01,
\* 2024-01-10] returns exactly four occurrences, at 09:00 on Jan 1, Jan 3,
\* Jan 8 and Jan 10.
C20_ScenarioFour ==
    (/\ result.called
     /\ probe.event = E1
     /\ probe.rangeStart = DayLen
     /\ probe.rangeEnd = 10 * DayLen) =>
        StartsOf(result.value) = <<NineOn(1), NineOn(3), NineOn(8), NineOn(10)>>

\* C21: the list returned when a set of stored events is expanded over a
\* window is in non-decreasing order of occurrence start, whatever the order of
\* the input events and however the occurrences of different events interleave.
C21_SortedByStart ==
    result.called =>
        \A i \in 1..Len(result.value) : \A j \in 1..Len(result.value) :
            i < j => result.value[i].start <= result.value[j].start

\* C21 witness: the second input event starts before the first, and in the
\* list one of its occurrences lies between two occurrences of the first
C21_Witness ==
    /\ result.called
    /\ probe.more # <<>>
    /\ probe.more[1].start < probe.event.start
    /\ \E i \in 1..Len(result.value) : \E j \in 1..Len(result.value) :
        \E k \in 1..Len(result.value) :
            /\ i < j /\ j < k
            /\ result.value[i].sourceEventId = probe.event.id
            /\ result.value[j].sourceEventId = probe.more[1].id
            /\ result.value[k].sourceEventId = probe.event.id

\* C22: for every emitted occurrence, isRecurring is true iff the source event
\* has a rule that parsed to a non-empty weekday set, also when the rule gives
\* exactly one occurrence in the window; occurrences of events with no rule or
\* a degraded rule have isRecurring false.
C22_IsRecurring ==
    result.called =>
        \A i \in 1..Len(result.value) :
            result.value[i].isRecurring <=>
                /\ probe.event.recurrenceRule.kind = "rule"
                /\ probe.event.recurrenceRule.weekdays # {}

\* C22 witness: a rule gave exactly one occurrence in the window, flagged as
\* recurring
C22_Witness ==
    /\ result.called
    /\ HasRule(probe.event)
    /\ Len(result.value) = 1
    /\ result.value[1].isRecurring

\* C22 witness of the other side: an event whose stored rule is degraded was
\* listed, its occurrence not flagged
C22_DegradedListed ==
    /\ result.called
    /\ Corrupt(probe.event.recurrenceRule)
    /\ Len(result.value) = 1
    /\ ~result.value[1].isRecurring

\* C26: for an event without a rule with start <= end and a window with
\* rangeStart <= rangeEnd, the read path's three-way test holds exactly when
\* the closed intervals intersect, event.start <= rangeEnd and event.end >=
\* rangeStart: an event that ends exactly at rangeStart or starts exactly at
\* rangeEnd is listed.
C26_ClosedIntersection ==
    (/\ result.called
     /\ probe.event.recurrenceRule.kind = "null"
     /\ probe.event.start <= probe.event.end
     /\ probe.rangeStart <= probe.rangeEnd) =>
        (result.value # <<>>) <=>
            (probe.event.start <= probe.rangeEnd /\ probe.event.end >= probe.rangeStart)

\* C26 witness: an event that ends exactly at rangeStart, and starts before
\* it, was listed
C26_Witness ==
    /\ result.called
    /\ probe.event.recurrenceRule.kind = "null"
    /\ probe.event.start < probe.event.end
    /\ probe.event.end = probe.rangeStart
    /\ probe.rangeStart < probe.rangeEnd
    /\ Len(result.value) = 1

\* C23: category and participants have no effect on conflict detection: the
\* verdict of the guard, called on its own or by an update, is the verdict it
\* gives for the same candidate times on the same table with every category
\* and every participant set replaced by one value.
C23_AttributesIgnored ==
    [][last'.op \in {"guard", "PATCH"} =>
        ((last'.error = "EventConflictError") <=>
            assertNoConflict(Plain(events), last'.start, last'.end,
                             last'.recurrence, last'.id))]_vars

\* C23 witness: the guard refused a candidate although every stored event has
\* another category and other participants than the candidate
C23_Witness ==
    /\ last.op = "guard"
    /\ last.error = "EventConflictError"
    /\ events # {}
    /\ \A e \in events :
            /\ e.category # last.category
            /\ e.participants # last.participantIds

\* C28: an update sent with participant ids P and category c leaves the
\* stored event with participant set exactly P and category c; an update that
\* does not change the participants does not remove them.
C28_UpdateKeepsAttributes ==
    [][(last'.op = "PATCH" /\ last'.error = "none") =>
        \E e \in events' :
            /\ e.id = last'.id
            /\ e.category = last'.category
            /\ e.participants = last'.participantIds]_vars

\* C28 for the fields the handler does pass: start, end and recurrence of the
\* body are those of the stored event after a successful update
C28_UpdateStoresTimes ==
    [][(last'.op = "PATCH" /\ last'.error = "none") =>
        \E e \in events' :
            /\ e.id = last'.id
            /\ e.start = last'.start /\ e.end = last'.end
            /\ e.recurrenceRule = stringifyRecurrence(last'.recurrence)]_vars

\* C24: the candidate occurrences of the conflict check are those the expander
\* gives for the candidate: generateCandidateOccurrences over the horizon
\* returns the same (start, end) pairs as expandEvents applied, over the same
\* horizon, to a stored event with the candidate's start, end and rule.
C24_CandidatesAsExpanded ==
    last.op = "guard" =>
        PairsOf(generateCandidateOccurrences(last.start, last.end,
                    last.recurrence, last.rangeStart, last.rangeEnd))
            = PairsOf(expandEvents(<<createdRow(1, LastBody)>>,
                                   last.rangeStart, last.rangeEnd))

\* C24 witness: the guard was called for a candidate with a rule that has two
\* or more occurrences in its horizon
C24_Witness ==
    /\ last.op = "guard"
    /\ last.recurrence.kind = "rule"
    /\ Cardinality(PairsOf(expandEvents(<<createdRow(1, LastBody)>>,
                                        last.rangeStart, last.rangeEnd))) >= 2

\* C25: the store pre-filter of getEventsInRange never changes the result:
\* for every table and window, the list of a read is the list that expanding
\* all stored events over the window gives.
C25_PrefilterNeutral ==
    (/\ last.op = "GET"
     /\ result.called
     /\ result.error = "none"
     /\ last.rangeStart <= last.rangeEnd) =>
        result.value = expandEvents(orderByStart(events), last.rangeStart,
                                    last.rangeEnd)

\* C25 for tables whose rows all have start <= end
C25_PrefilterNeutralSound ==
    (/\ last.op = "GET"
     /\ result.called
     /\ result.error = "none"
     /\ last.rangeStart <= last.rangeEnd
     /\ \A e \in events : e.start <= e.end) =>
        result.value = expandEvents(orderByStart(events), last.rangeStart,
                                    last.rangeEnd)

\* C27: within one list, occurrence ids are pairwise distinct when the event
\* ids are: the id of an occurrence without a rule is the event id, the id of
\* a recurring occurrence is the event id joined with its start, and no two
\* occurrences of one event share a start.
C27_DistinctIds ==
    result.called =>
        /\ \A i \in 1..Len(result.value) : \A j \in 1..Len(result.value) :
                i # j => result.value[i].id # result.value[j].id
        /\ \A i \in 1..Len(result.value) :
                LET o == result.value[i]
                IN  o.id = IF o.isRecurring THEN <<o.sourceEventId, o.start>>
                           ELSE <<o.sourceEventId>>

\* C27 witness: the list holds two or more occurrences of one recurring event
\* and an occurrence of another event
C27_Witness ==
    /\ result.called
    /\ \E i \in 1..Len(result.value) : \E j \in 1..Len(result.value) :
        \E k \in 1..Len(result.value) :
            /\ i # j
            /\ result.value[i].sourceEventId = result.value[j].sourceEventId
            /\ result.value[i].isRecurring
            /\ result.value[k].sourceEventId # result.value[i].sourceEventId

\* the connections whose request was aborted or whose stream was cancelled
Ended(c) == streams[c].aborted \/ streams[c].cancelled

C29_NothingAfterEnd ==
    [][\A c \in 1..MaxConns : Ended(c) => streams'[c].chunks = streams[c].chunks]_vars

\* C29, the order cancel then abort: controller.close() throws
C29_CloseAfterCancel ==
    \E c \in 1..MaxConns : streams[c].error = "close on a closed stream"

OpenSources == {i \in 1..Len(client.sources) : client.sources[i] = "open"}

\* a step in which the onerror handler ran: an open source is closed by
\* something other than a reconnect or the cleanup
ErrorStep ==
    /\ OpenSources # {}
    /\ client.sources' # client.sources
    /\ Len(client.sources') = Len(client.sources)
    /\ client.phase' = client.phase

\* C30: at most one EventSource is open and at most one reconnect timeout
\* is pending; an error closes the source at hand and leaves exactly one
\* timeout of 5000 ms pending; after the cleanup the source is closed, no
\* timeout is pending and no source is created any more
C30_OneSourceOneTimer ==
    [][/\ Cardinality(OpenSources) <= 1
       /\ client.timers <= 1
       /\ ErrorStep =>
            /\ \A i \in 1..Len(client.sources) : client.sources'[i] = "closed"
            /\ client.timers = 0
            /\ client.timers' = 1
            /\ client.delay' = RETRY_MS
       /\ client.phase = "unmounted" =>
            /\ OpenSources = {}
            /\ client.timers = 0
            /\ client' = client]_vars

\* the page unmounted while a reconnect was pending, after a reconnect
C30_Witness ==
    /\ client.phase = "unmounted"
    /\ client.retryTimer
    /\ Len(client.sources) = 2

====
